---- MODULE Spec2Model ----
(***************************************************************************)
(* Model of findpath.js: the grid generation of GraphSearch, the           *)
(* coordinate mapping and drawing state of SceneRenderer, and the global   *)
(* event handlers mouseMove, mouseClick, makeScene and the setTimeout      *)
(* callback that share playerPos and playerMoving.                         *)
(***************************************************************************)
EXTENDS Integers, Sequences, FiniteSets, TLC

\* ------------------------------------------------------------------ bounds
\* largest value offered by #selectGridSize
MaxGridSize == 2
\* Math.random() is explored at the values k / RandDen, k in 0..RandDen-1
RandDen == 4
\* the random draws are explored for the cells of row-major rank below this
\* one (the later cells draw walkable), next to the grid that is all walls
MaxWallRank == 3
\* cap on the number of setTimeout callbacks pending at once
MaxTimers == 2

\* ------------------------------------------------------- program constants
\* width and height of the PIXI application, 640/this.gridSize
SurfaceSize == 640
\* tile size used by tilemap.tile(..., i * 32, j * 32)
TileSize == 32
\* delay of setTimeout(() => playerMoving = false, 1000)
LockDelay == 1000

\* --------------------------------------------------------------- values
\* the JavaScript value undefined (firstEmpty when no cell is walkable)
Undefined == [undefined |-> TRUE]

\* values offered by #selectGridSize
GridSizes == 0 .. MaxGridSize

\* values offered by #selectWallFrequency, as <<numerator, denominator>>
WallFrequencies == {<<1, 2>>, <<1, 1>>}

\* option objects {wallFrequency, gridSize} read from the two selects
Options == [wallFrequency : WallFrequencies, gridSize : GridSizes]

\* sampled pointer coordinates of e.data.global inside the 640x640 hit area
Pixels == {0, 250, 500}

\* pointer positions e.data.global, coordinates as <<numerator, denominator>>
Positions == [x : {<<p, 1>> : p \in Pixels}, y : {<<p, 1>> : p \in Pixels}]

\* ------------------------------------------------------- GraphSearch
IsFieldTimes(k, wf) == (k * wf[1]) \div (RandDen * wf[2])
\* Math.floor(Math.random()*(1/wallFrequency)) for Math.random() = k/RandDen
IsField(k, wf) == (k * wf[2]) \div (RandDen * wf[1])

\* the weights one cell can get: 0 when isField is 0, otherwise 1
CellOutcomes(wf) == {IF IsField(k, wf) = 0 THEN 0 ELSE 1 : k \in 0 .. (RandDen - 1)}

\* nodes.length
Size(nodes) == Cardinality(DOMAIN nodes)

\* the sets of cell ranks explored as walls of a grid with the given cells
WallSets(cells) == SUBSET (cells \cap (0 .. (MaxWallRank - 1)))

NodesLongRows(n, W) ==
  [x \in 0 .. (n - 1) |-> [y \in 0 .. n |-> IF (x * n + y) \in W THEN 0 ELSE 1]]
\* the nodes array whose weight-0 cells are those with a row-major rank in W
NodesWithWalls(n, W) ==
  [x \in 0 .. (n - 1) |-> [y \in 0 .. (n - 1) |-> IF (x * n + y) \in W THEN 0 ELSE 1]]

\* per option object, the nodes arrays the two loops of initialize can build
GridTable ==
  [o \in Options |->
     LET n == o.gridSize
         cells == 0 .. (n * n - 1)
         out == CellOutcomes(o.wallFrequency)
     IN (IF 0 \in out THEN {NodesWithWalls(n, cells)} ELSE {}) \cup
        (IF 1 \in out /\ 0 \in out
         THEN {NodesWithWalls(n, W) : W \in WallSets(cells)}
         ELSE {}) \cup
        (IF 1 \in out THEN {NodesWithWalls(n, {})} ELSE {})]

\* the nodes arrays initialize can build for the options o
Grids(o) == GridTable[o]

\* row-major rank of a tile
Rank(t, n) == t.x * n + t.y

LastEmpty(nodes) ==
  LET n == Size(nodes)
      walk == {t \in [x : 0 .. (n - 1), y : 0 .. (n - 1)] : nodes[t.x][t.y] = 1}
  IN IF walk = {} THEN Undefined
     ELSE CHOOSE t \in walk : \A u \in walk : Rank(t, n) >= Rank(u, n)
\* firstEmpty of initialize: set at the first cell pushed with weight 1
FirstEmpty(nodes) ==
  LET n == Size(nodes)
      walk == {t \in [x : 0 .. (n - 1), y : 0 .. (n - 1)] : nodes[t.x][t.y] = 1}
  IN IF walk = {} THEN Undefined
     ELSE CHOOSE t \in walk : \A u \in walk : Rank(t, n) <= Rank(u, n)

AssignUnder(o, opt) ==
  [k \in (DOMAIN o) \cup (DOMAIN opt) |-> IF k \in DOMAIN o THEN o[k] ELSE opt[k]]
\* this.opts = Object.assign({}, this.opts, opt): the keys of opt over those of o
SetOption(o, opt) ==
  [k \in (DOMAIN o) \cup (DOMAIN opt) |-> IF k \in DOMAIN opt THEN opt[k] ELSE o[k]]

\* ------------------------------------------------ the pluggable search
InGrid(t, n) == t.x \in 0 .. (n - 1) /\ t.y \in 0 .. (n - 1)

\* the 4-connected neighbours of a tile that are inside the grid and walkable
Neighbors(nodes, t) ==
  {u \in [x : 0 .. (Size(nodes) - 1), y : 0 .. (Size(nodes) - 1)] :
     /\ nodes[u.x][u.y] = 1
     /\ \/ (u.x = t.x /\ (u.y = t.y + 1 \/ u.y = t.y - 1))
        \/ (u.y = t.y /\ (u.x = t.x + 1 \/ u.x = t.x - 1))}

\* the cells one step further along the paths of a breadth-first layer
Extend(nodes, paths, seen) ==
  UNION {{Append(p, c) : c \in Neighbors(nodes, p[Len(p)]) \ seen} : p \in paths}

RECURSIVE ShortestFrom(_, _, _, _)
\* breadth-first layers of paths: the paths of the first layer that arrives
\* at to, or the empty path when the layers run out
ShortestFrom(nodes, paths, seen, to) ==
  IF paths = {} THEN {<<>>}
  ELSE IF {p \in paths : p[Len(p)] = to} # {}
       THEN {p \in paths : p[Len(p)] = to}
       ELSE ShortestFrom(nodes, Extend(nodes, paths, seen \cup {p[Len(p)] : p \in paths}),
                         seen \cup {p[Len(p)] : p \in paths}, to)

\* the results this.search(graph, startCell, endCell) may return: a shortest
\* path from a neighbour of start to end, [] when start is end or end is not
\* reachable; ties between equal-cost paths are the implementation's choice
Search(nodes, start, end) ==
  IF start = end \/ nodes[end.x][end.y] = 0 THEN {<<>>}
  ELSE ShortestFrom(nodes, {<<c>> : c \in Neighbors(nodes, start)}, {start}, end)

\* ------------------------------------------------------ SceneRenderer
getTileNoSwap(position, n) ==
  [x |-> (position.x[1] * n) \div (position.x[2] * SurfaceSize),
   y |-> (position.y[1] * n) \div (position.y[2] * SurfaceSize)]
\* getTileByCoord: Math.floor(position.y/cellSize), Math.floor(position.x/cellSize)
\* with cellSize = 640/gridSize (Infinity when gridSize is 0)
getTileByCoord(position, n) ==
  [x |-> (position.y[1] * n) \div (position.y[2] * SurfaceSize),
   y |-> (position.x[1] * n) \div (position.x[2] * SurfaceSize)]

\* getCoordByTile: tile.y*cellSize + cellSize/2, tile.x*cellSize + cellSize/2
\* as <<numerator, denominator>>; denominator 0 stands for a non-finite value
getCoordByTile(tile, n) ==
  [x |-> <<(2 * tile.y + 1) * SurfaceSize, 2 * n>>,
   y |-> <<(2 * tile.x + 1) * SurfaceSize, 2 * n>>]

\* the tiles fillTileMap places: texture of nodes[j][i] at (i*32, j*32)
FillTileMap(nodes) ==
  {[tex |-> IF nodes[j][i] # 0 THEN "grass.png" ELSE "brick.png",
    x |-> i * TileSize, y |-> j * TileSize] :
     i \in DOMAIN nodes, j \in DOMAIN nodes}

\* linePath of movePlayer: the screen coordinates of the tiles of the path
LinePath(path, n) == [i \in 1 .. Len(path) |-> getCoordByTile(path[i], n)]

\* ---------------------------------------------------------------- state
VARIABLES
  opts,          \* graphSearch.opts
  grid,          \* graphSearch.graph.grid (weights)
  playerPos,     \* var playerPos
  playerMoving,  \* var playerMoving
  timers,        \* pending setTimeout callbacks, oldest first
  lockOwner,     \* the callback scheduled by the click that last set playerMoving
  tilemap,       \* sceneRenderer.tilemap
  pathLine,      \* sceneRenderer.pathLine
  gridSize,      \* sceneRenderer.gridSize
  wired,         \* initGame reached the assignments of the event handlers
  ev,            \* the handler that ran last
  calls,         \* the calls that handler made to search, renderer and timer
  err            \* the exception that ended that handler, or "none"

vars == <<opts, grid, playerPos, playerMoving, timers, lockOwner, tilemap,
          pathLine, gridSize, wired, ev, calls, err>>

DrawPathKeep(path, n) ==
  IF Len(path) < 2 THEN pathLine
  ELSE [i \in 1 .. (Len(path) - 1) |->
          <<getCoordByTile(path[i], n), getCoordByTile(path[i + 1], n)>>]
\* the segments drawPath adds to pathLine after clearing it
DrawPath(path, n) ==
  IF Len(path) < 2 THEN <<>>
  ELSE [i \in 1 .. (Len(path) - 1) |->
          <<getCoordByTile(path[i], n), getCoordByTile(path[i + 1], n)>>]

\* lockOwner before any click has taken the lock
NoOwner == -1

\* the handlers that run makeScene after initGame
Regen == {"btnGenerate", "selectWallFrequency", "selectGridSize"}

\* the handlers of the pointer events
Pointer == {"mouseMove", "mouseClick"}

LockClearedByMakeScene == FALSE
\* playerMoving after makeScene: none of its three statements assigns it
LockAfterMakeScene == playerMoving

KeepPos(nodes) == playerPos
\* playerPos = graphSearch.initialize()
PosAfterMakeScene(nodes) == FirstEmpty(nodes)

\* the calls of makeScene for the nodes initialize built; placePlayer is
\* reached only when getCoordByTile does not throw on an undefined tile
MakeSceneCalls(nodes) ==
  <<[port |-> "fillTileMap", nodes |-> nodes]>> \o
  (IF FirstEmpty(nodes) = Undefined THEN <<>>
   ELSE <<[port |-> "placePlayer",
           coord |-> getCoordByTile(FirstEmpty(nodes), Size(nodes))]>>)

\* the exception makeScene ends with: tile.y of undefined in getCoordByTile
MakeSceneErr(nodes) == IF FirstEmpty(nodes) = Undefined THEN "TypeError" ELSE "none"

\* initGame: options from the selects, new GraphSearch, makeScene, then the
\* handlers are installed (not reached when makeScene throws)
Init ==
  \E o \in Options : \E nodes \in Grids(o) :
    /\ opts = o
    /\ grid = nodes
    /\ playerPos = FirstEmpty(nodes)
    /\ playerMoving = FALSE
    /\ timers = <<>>
    /\ lockOwner = NoOwner
    /\ tilemap = FillTileMap(nodes)
    /\ pathLine = <<>>
    /\ gridSize = Size(nodes)
    /\ wired = (MakeSceneErr(nodes) = "none")
    /\ ev = "initGame"
    /\ calls = MakeSceneCalls(nodes)
    /\ err = MakeSceneErr(nodes)

\* makeScene with the options o in force: initialize, fillTileMap, placePlayer
makeScene(o, handler, made) ==
  \E nodes \in Grids(o) :
    /\ opts' = o
    /\ grid' = nodes
    /\ playerPos' = PosAfterMakeScene(nodes)
    /\ playerMoving' = LockAfterMakeScene
    /\ tilemap' = FillTileMap(nodes)
    /\ pathLine' = <<>>
    /\ gridSize' = Size(nodes)
    /\ ev' = handler
    /\ calls' = made \o MakeSceneCalls(nodes)
    /\ err' = MakeSceneErr(nodes)
    /\ UNCHANGED <<timers, lockOwner, wired>>

\* the record of one graphSearch.setOption(opt)
SetOptionCall(opt) == [port |-> "setOption", opt |-> opt]

\* #btnGenerate.onclick
btnGenerate ==
  /\ wired
  /\ makeScene(opts, "btnGenerate", <<>>)

\* #selectWallFrequency.onchange
selectWallFrequency ==
  /\ wired
  /\ \E v \in WallFrequencies \ {opts.wallFrequency} :
       makeScene(SetOption(opts, [wallFrequency |-> v]), "selectWallFrequency",
                 <<SetOptionCall([wallFrequency |-> v])>>)

\* #selectGridSize.onchange
selectGridSize ==
  /\ wired
  /\ \E v \in GridSizes \ {opts.gridSize} :
       makeScene(SetOption(opts, [gridSize |-> v]), "selectGridSize",
                 <<SetOptionCall([gridSize |-> v])>>)

\* a handler that returns at its first line or throws before any effect
NoEffect(handler, e) ==
  /\ ev' = handler
  /\ calls' = <<>>
  /\ err' = e
  /\ UNCHANGED <<opts, grid, playerPos, playerMoving, timers, lockOwner,
                 tilemap, pathLine, gridSize, wired>>

NeverLocked == FALSE
\* if(playerMoving) return;
Locked == playerMoving

\* searchPath throws when start is undefined or a cell lookup leaves the grid
SearchThrows(tile) == playerPos = Undefined \/ ~InGrid(tile, Size(grid))

\* the record of one graphSearch.searchPath(start, end) and what it returned
SearchCall(start, end, found) ==
  [port |-> "search", start |-> start, end |-> end, result |-> found]

NoUnshift(pos, found) == found
\* path.unshift(playerPos)
Unshift(pos, found) == <<pos>> \o found

\* tilemap.mousemove
mouseMove ==
  /\ wired
  /\ \E position \in Positions :
       LET tile == getTileByCoord(position, gridSize) IN
       IF Locked THEN NoEffect("mouseMove", "none")
       ELSE IF SearchThrows(tile) THEN NoEffect("mouseMove", "TypeError")
       ELSE \E found \in Search(grid, playerPos, tile) :
              LET path == Unshift(playerPos, found) IN
              /\ pathLine' = DrawPath(path, gridSize)
              /\ ev' = "mouseMove"
              /\ calls' = <<SearchCall(playerPos, tile, found),
                            [port |-> "drawPath", path |-> path]>>
              /\ err' = "none"
              /\ UNCHANGED <<opts, grid, playerPos, playerMoving, timers,
                             lockOwner, tilemap, gridSize, wired>>

\* an identifier for a new timer that no pending timer carries
FreshTimer == CHOOSE i \in 0 .. MaxTimers : \A k \in 1 .. Len(timers) : timers[k] # i

NeverEmpty(found) == FALSE
\* if(path.length == 0) return;
IsEmptyPath(found) == Len(found) = 0

StartOfPath(path) == [x |-> path[1].x, y |-> path[1].y]
\* playerPos = {x:path[path.length-1].x, y:path[path.length-1].y}
CommittedPos(path) == [x |-> path[Len(path)].x, y |-> path[Len(path)].y]

NoTimeout(ts, id) == ts
\* setTimeout(() => playerMoving = false, 1000)
SetTimeout(ts, id) == Append(ts, id)

\* tilemap.click
mouseClick ==
  /\ wired
  /\ \E position \in Positions :
       LET tile == getTileByCoord(position, gridSize) IN
       IF Locked THEN NoEffect("mouseClick", "none")
       ELSE IF SearchThrows(tile) THEN NoEffect("mouseClick", "TypeError")
       ELSE \E found \in Search(grid, playerPos, tile) :
              IF IsEmptyPath(found)
              THEN /\ ev' = "mouseClick"
                   /\ calls' = <<SearchCall(playerPos, tile, found)>>
                   /\ err' = "none"
                   /\ UNCHANGED <<opts, grid, playerPos, playerMoving, timers,
                                  lockOwner, tilemap, pathLine, gridSize, wired>>
              ELSE LET path == Unshift(playerPos, found) IN
                   /\ Len(timers) < MaxTimers
                   /\ pathLine' = <<>>
                   /\ playerMoving' = TRUE
                   /\ timers' = SetTimeout(timers, FreshTimer)
                   /\ lockOwner' = FreshTimer
                   /\ playerPos' = CommittedPos(path)
                   /\ ev' = "mouseClick"
                   /\ calls' = <<SearchCall(playerPos, tile, found),
                                 [port |-> "movePlayer", path |-> path,
                                  linePath |-> LinePath(path, gridSize)],
                                 [port |-> "setTimeout", delay |-> LockDelay]>>
                   /\ err' = "none"
                   /\ UNCHANGED <<opts, grid, tilemap, gridSize, wired>>

\* the callback () => playerMoving = false of the oldest pending timer
timerCallback ==
  /\ timers # <<>>
  /\ timers' = Tail(timers)
  /\ playerMoving' = FALSE
  /\ ev' = "timer"
  /\ calls' = <<>>
  /\ err' = "none"
  /\ UNCHANGED <<opts, grid, playerPos, lockOwner, tilemap, pathLine, gridSize, wired>>

Next ==
  \/ mouseMove
  \/ mouseClick
  \/ btnGenerate
  \/ selectWallFrequency
  \/ selectGridSize
  \/ timerCallback

Spec == Init /\ [][Next]_vars

\* the host timer facility fires every pending callback
FairSpec == Spec /\ WF_vars(timerCallback)

\* ================================================================ claims

\* the controller state and drawing state a pointer handler could touch
frame == <<opts, grid, playerPos, playerMoving, timers, tilemap, pathLine, gridSize>>

\* the step just taken ran mouseClick unlocked and its search returned found
ClickReturned(found) ==
  /\ ev' = "mouseClick"
  /\ ~playerMoving
  /\ Len(calls') >= 1
  /\ calls'[1].port = "search"
  /\ calls'[1].result = found

\* C1: while the timer of a commit is still pending, a mouseMove or a
\* mouseClick makes no call (no search, drawPath, movePlayer or setTimeout),
\* throws nothing and leaves playerPos, playerMoving, the timers, the grid and
\* the drawing state as they were
C1_LockExclusion ==
  [][(timers # <<>> /\ ev' \in Pointer) =>
       (calls' = <<>> /\ err' = "none" /\ UNCHANGED frame)]_vars

\* a pointer event was ignored while the timer of a commit was pending
C1_Witness ==
  /\ ev \in Pointer
  /\ timers # <<>>
  /\ playerMoving
  /\ calls = <<>>
  /\ playerPos # Undefined

C4_Commit ==
  [][(ev' = "mouseClick" /\ ~playerMoving /\ Len(calls') >= 1
         /\ calls'[1].port = "search" /\ calls'[1].result # <<>>) =>
        /\ Len(calls') = 3
        /\ calls'[2].port = "movePlayer"
        /\ calls'[2].path = <<playerPos>> \o calls'[1].result
        /\ calls'[3].port = "setTimeout"
        /\ playerMoving'
        /\ Len(timers') = Len(timers) + 1
        /\ playerPos' = [x |-> calls'[1].result[Len(calls'[1].result)].x,
                         y |-> calls'[1].result[Len(calls'[1].result)].y]
        /\ playerPos' = calls'[1].end
        /\ playerPos' # playerPos]_vars

\* a commit moved the player over a path of at least two cells
C4_Witness ==
  /\ ev = "mouseClick"
  /\ Len(calls) = 3
  /\ Len(calls[1].result) >= 2
  /\ playerPos = calls[1].end
  /\ playerMoving

\* C5: a mouseClick that runs unlocked and gets an empty path only made the
\* query: no movePlayer, drawPath or setTimeout call, and playerPos,
\* playerMoving, the timers, the grid and the drawing state are unchanged
C5_EmptyCommit ==
  [][ClickReturned(<<>>) =>
       (Len(calls') = 1 /\ err' = "none" /\ UNCHANGED frame)]_vars

\* a click on a walkable tile that cannot be reached returned the empty path
C5_Witness ==
  /\ ev = "mouseClick"
  /\ Len(calls) = 1
  /\ calls[1].result = <<>>
  /\ calls[1].end # calls[1].start
  /\ grid[calls[1].end.x][calls[1].end.y] = 1
  /\ ~playerMoving

\* C6: under fairness of the timer, whenever playerMoving is set it is
\* eventually clear again
C6_LockReleased == playerMoving ~> ~playerMoving

\* the timer of a commit fired and released the lock
C6_Witness ==
  /\ ev = "timer"
  /\ ~playerMoving
  /\ timers = <<>>
  /\ lockOwner # NoOwner
  /\ playerPos # Undefined

\* C7 as stated: a mouseMove that runs unlocked queries the search with
\* playerPos and the hovered tile, hands drawPath playerPos followed by the
\* returned cells, and changes no controller state
C7_Preview ==
  [][(ev' = "mouseMove" /\ ~playerMoving) =>
       /\ Len(calls') = 2
       /\ calls'[1].port = "search"
       /\ calls'[1].start = playerPos
       /\ calls'[2].port = "drawPath"
       /\ calls'[2].path = <<playerPos>> \o calls'[1].result
       /\ UNCHANGED <<opts, grid, playerPos, playerMoving, timers, tilemap, gridSize>>]_vars

\* C8: playerPos changes only in a makeScene or in an unlocked mouseClick
\* whose search returned a non-empty path, and the grid only in a makeScene
C8_PosFrame ==
  [][/\ (playerPos' # playerPos) =>
          \/ ev' \in Regen
          \/ /\ ev' = "mouseClick"
             /\ ~playerMoving
             /\ Len(calls') = 3
             /\ calls'[1].result # <<>>
     /\ (grid' # grid) => ev' \in Regen]_vars

\* a click while locked left the position of the earlier commit in place
C8_Witness ==
  /\ ev = "mouseClick"
  /\ calls = <<>>
  /\ playerMoving
  /\ playerPos # Undefined
  /\ playerPos # FirstEmpty(grid)

\* t is the first walkable cell of nodes in row-major order, or undefined
\* when nodes has no walkable cell
IsFirstWalkable(t, nodes) ==
  LET n == Size(nodes)
      cells == [x : 0 .. (n - 1), y : 0 .. (n - 1)]
  IN IF \A c \in cells : nodes[c.x][c.y] = 0 THEN t = Undefined
     ELSE /\ t \in cells
          /\ nodes[t.x][t.y] = 1
          /\ \A c \in cells :
               (c.x < t.x \/ (c.x = t.x /\ c.y < t.y)) => nodes[c.x][c.y] = 0

\* the tilemap holds one tile per cell of nodes, grass for weight 1 and brick
\* for weight 0, with the row index on the vertical axis
ShowsGrid(tiles, nodes) ==
  LET n == Size(nodes) IN
  /\ Cardinality(tiles) = n * n
  /\ \A r \in 0 .. (n - 1), c \in 0 .. (n - 1) :
       [tex |-> IF nodes[r][c] = 1 THEN "grass.png" ELSE "brick.png",
        x |-> c * TileSize, y |-> r * TileSize] \in tiles

\* C9: right after a handler that ran makeScene, in any state, playerPos is
\* the first walkable tile of the new grid, the tilemap shows the new grid
\* and the path line is empty
C9_Regenerate ==
  (ev \in Regen) =>
    /\ IsFirstWalkable(playerPos, grid)
    /\ ShowsGrid(tilemap, grid)
    /\ gridSize = Size(grid)
    /\ pathLine = <<>>

\* a makeScene during the lock window reset the position of the commit
C9_Witness ==
  /\ ev \in Regen
  /\ playerMoving
  /\ playerPos # Undefined
  /\ Size(grid) = MaxGridSize
  /\ grid[0][0] = 0

\* C10 as stated: a handler that runs makeScene never ends with an exception,
\* whatever the grid size and the generated grid
C10_NoThrow == (ev \in Regen) => err = "none"


\* the tiles of a grid of the given size
Tiles(n) == [x : 0 .. (n - 1), y : 0 .. (n - 1)]

\* the value <<numerator, denominator>> lies in the half-open interval
\* [lo * SurfaceSize / n, (lo + 1) * SurfaceSize / n)
InCell(q, lo, n) ==
  /\ lo * SurfaceSize * q[2] <= q[1] * n
  /\ q[1] * n < (lo + 1) * SurfaceSize * q[2]

\* C11: for the grid size of the renderer and every tile inside the grid,
\* getTileByCoord of getCoordByTile of the tile is the tile again, the screen
\* x lies in the column of tile.y and the screen y in the row of tile.x, and
\* the coordinates handed to placePlayer and movePlayer map back to their tiles
C11_RoundTrip ==
  /\ \A t \in Tiles(gridSize) :
       /\ getTileByCoord(getCoordByTile(t, gridSize), gridSize) = t
       /\ InCell(getCoordByTile(t, gridSize).x, t.y, gridSize)
       /\ InCell(getCoordByTile(t, gridSize).y, t.x, gridSize)
  /\ \A i \in 1 .. Len(calls) :
       /\ (calls[i].port = "movePlayer") =>
            \A j \in 1 .. Len(calls[i].path) :
              getTileByCoord(calls[i].linePath[j], gridSize) = calls[i].path[j]
       /\ (calls[i].port = "placePlayer") =>
            getTileByCoord(calls[i].coord, gridSize) = playerPos

\* movePlayer got the coordinates of a path that ends off the diagonal
C11_Witness ==
  /\ ev = "mouseClick"
  /\ Len(calls) = 3
  /\ gridSize = MaxGridSize
  /\ playerPos.x # playerPos.y
  /\ getTileByCoord(calls[2].linePath[Len(calls[2].linePath)], gridSize) = playerPos

\* C12: the grid has exactly opts.gridSize rows, every row has exactly
\* opts.gridSize cells and every weight is 0 or 1, after initGame and after
\* every makeScene, for every option value and every outcome of the draws
C12_GridShape ==
  /\ DOMAIN grid = 0 .. (opts.gridSize - 1)
  /\ \A x \in DOMAIN grid :
       /\ DOMAIN grid[x] = 0 .. (opts.gridSize - 1)
       /\ \A y \in DOMAIN grid[x] : grid[x][y] \in {0, 1}

\* a makeScene built a grid of the largest size with a wall and a field
C12_Witness ==
  /\ ev \in Regen
  /\ opts.gridSize = MaxGridSize
  /\ Size(grid) = MaxGridSize
  /\ \E t \in Tiles(Size(grid)) : grid[t.x][t.y] = 0
  /\ \E t \in Tiles(Size(grid)) : grid[t.x][t.y] = 1

\* c comes before t in the row-major scan of initialize
Precedes(c, t) == c.x < t.x \/ (c.x = t.x /\ c.y < t.y)

\* C13: the tile initialize returned (playerPos right after initGame or a
\* makeScene) has weight 1 and every cell before it in row-major order has
\* weight 0; it is undefined exactly when the grid has no cell of weight 1
C13_FirstWalkable ==
  (ev \in Regen \cup {"initGame"}) =>
    /\ (playerPos = Undefined) <=> (\A c \in Tiles(Size(grid)) : grid[c.x][c.y] = 0)
    /\ (playerPos # Undefined) =>
         /\ playerPos \in Tiles(Size(grid))
         /\ grid[playerPos.x][playerPos.y] = 1
         /\ \A c \in Tiles(Size(grid)) : Precedes(c, playerPos) => grid[c.x][c.y] = 0

\* initialize returned a tile of the second row behind walls and before a field
C13_Witness ==
  /\ ev \in Regen
  /\ playerPos # Undefined
  /\ playerPos.x = 1
  /\ playerPos.y = 0
  /\ grid[0][0] = 0
  /\ grid[1][1] = 1

\* wallFrequency values the comparison of C14 ranges over
FrequencySamples == {<<a, b>> : a \in 1 .. 3, b \in 1 .. 4}

\* w < v for wallFrequency values <<numerator, denominator>>
Less(w, v) == w[1] * v[2] < v[1] * w[2]

\* C14 as stated: for the wallFrequency in force and every larger one, a
\* draw that gives a walkable cell under the smaller value gives a walkable
\* cell under the larger value
C14_Original ==
  \A k \in 0 .. (RandDen - 1) : \A v \in FrequencySamples :
    (Less(opts.wallFrequency, v) /\ IsField(k, opts.wallFrequency) # 0) =>
      IsField(k, v) # 0

\* C14 amended: raising wallFrequency never makes walls sparser: a draw that
\* gives a walkable cell under a value gives a walkable cell under every
\* smaller value, and under wallFrequency 1 or more every cell is a wall
C14_DenserWalls ==
  /\ \A k \in 0 .. (RandDen - 1) : \A v \in FrequencySamples :
       /\ (Less(v, opts.wallFrequency) /\ IsField(k, opts.wallFrequency) # 0) =>
            IsField(k, v) # 0
       /\ (Less(opts.wallFrequency, v) /\ IsField(k, v) # 0) =>
            IsField(k, opts.wallFrequency) # 0
       /\ ~Less(v, <<1, 1>>) => IsField(k, v) = 0
  /\ ~Less(opts.wallFrequency, <<1, 1>>) =>
       \A t \in Tiles(Size(grid)) : grid[t.x][t.y] = 0

\* raising wallFrequency to 1 turned a grid with fields into one of walls only
C14_Witness ==
  /\ ev = "selectWallFrequency"
  /\ opts.wallFrequency = <<1, 1>>
  /\ Size(grid) = MaxGridSize
  /\ \A t \in Tiles(Size(grid)) : grid[t.x][t.y] = 0

\* C15: a handler that calls setOption leaves opts with the supplied value at
\* every supplied key and the previous value at every other key; setOption
\* with no key gives the same options; and opts changes in no other step, nor
\* does the lock change in a step that calls setOption
C15_Merge ==
  [][/\ (Len(calls') >= 1 /\ calls'[1].port = "setOption") =>
          /\ DOMAIN opts' = DOMAIN opts
          /\ \A k \in DOMAIN opts' :
               opts'[k] = IF k \in DOMAIN calls'[1].opt THEN calls'[1].opt[k] ELSE opts[k]
          /\ playerMoving' = playerMoving
     /\ ~(Len(calls') >= 1 /\ calls'[1].port = "setOption") => opts' = opts
     /\ SetOption(opts, <<>>) = opts]_vars

\* a grid size change kept the wall frequency chosen by an earlier change
C15_Witness ==
  /\ ev = "selectGridSize"
  /\ calls[1].port = "setOption"
  /\ opts.gridSize = calls[1].opt.gridSize
  /\ opts.gridSize = MaxGridSize
  /\ opts.wallFrequency = <<1, 1>>
  /\ playerMoving

\* C16: in every reachable state playerMoving is true exactly when one
\* setTimeout callback is pending, and never more than one is pending
C16_LockIffTimer ==
  /\ Len(timers) <= 1
  /\ playerMoving <=> (Len(timers) = 1)

\* a makeScene ran in the lock window: the lock and its one timer are still there
C16_Witness ==
  /\ ev \in Regen
  /\ playerMoving
  /\ Len(timers) = 1
  /\ timers[1] = lockOwner

\* C17: with a search that keeps its contract, whenever the current grid has
\* a walkable cell playerPos lies inside the grid on both axes and is a cell
\* of weight 1 of the current grid
C17_PosWalkable ==
  (\E c \in Tiles(Size(grid)) : grid[c.x][c.y] = 1) =>
    /\ playerPos # Undefined
    /\ playerPos.x \in 0 .. (opts.gridSize - 1)
    /\ playerPos.y \in 0 .. (opts.gridSize - 1)
    /\ grid[playerPos.x][playerPos.y] = 1

\* a commit after a makeScene moved the player on a grid that has a wall
C17_Witness ==
  /\ ev = "timer"
  /\ playerPos # Undefined
  /\ playerPos # FirstEmpty(grid)
  /\ \E c \in Tiles(Size(grid)) : grid[c.x][c.y] = 0
  /\ grid[playerPos.x][playerPos.y] = 1

\* C18: a mouseMove that runs unlocked and gets the empty path from the
\* search still calls drawPath, with the one-element path of playerPos, and
\* the path line is empty afterwards
C18_EmptyPreview ==
  [][(ev' = "mouseMove" /\ ~playerMoving /\ Len(calls') >= 1
        /\ calls'[1].port = "search" /\ calls'[1].result = <<>>) =>
       /\ Len(calls') = 2
       /\ calls'[2].port = "drawPath"
       /\ calls'[2].path = <<playerPos>>
       /\ pathLine' = <<>>
       /\ playerPos' = playerPos]_vars

\* a hover over a walkable tile that cannot be reached left no line
C18_Witness ==
  /\ ev = "mouseMove"
  /\ Len(calls) = 2
  /\ calls[1].result = <<>>
  /\ calls[1].end # calls[1].start
  /\ grid[calls[1].end.x][calls[1].end.y] = 1
  /\ pathLine = <<>>

====
